---- MODULE Spec2Model ----
(***************************************************************************)
(* A model of app.py: an in-memory URL shortener.  Request handlers run as *)
(* concurrent workers (threads).  They share the registry url_store, the   *)
(* counter _counter and the lock _counter_lock.  Every access to shared    *)
(* state is one step of a worker; "_counter += 1" is a load followed by a  *)
(* store, and the loop of _encode_base62 is taken one iteration at a time. *)
(***************************************************************************)
EXTENDS Integers, Sequences, FiniteSets, TLC

(* ------------------------------ bounds --------------------------------- *)
\* Workers of the concurrent specification.
NumWorkers == 2
\* Codes issued at most in the concurrent specification.
MaxCounter == 4
\* Workers and codes issued at most in the long-run specification.
NumLongWorkers == 1
MaxLong == 63
\* Largest argument of the direct calls of _encode_base62.
MaxNum == 3850

\* Workers and codes issued at most in the fair specification.
NumFairWorkers == 2
MaxFair == 3

Workers == 1..NumWorkers
LongWorkers == 1..NumLongWorkers
FairWorkers == 1..NumFairWorkers
AllWorkers == Workers \cup LongWorkers \cup FairWorkers

(* ------------------------------ values --------------------------------- *)
\* Python's None, as a value no URL and no code equals.
None == "<None>"
\* The url values a request body can carry: absent, empty, or a URL.
UrlValues == {None, "", "http://a", "http://b"}
\* A request to /shorten.  A JSON request carries a body that parses to an
\* object with an optional "url" (a body that does not parse, or parses to a
\* falsy value, counts as the empty object) or to another truthy JSON value
\* such as [1]; its form is empty.  Any other request carries at most the
\* form field "url".
JsonRequests ==
    {[is_json |-> TRUE, json_kind |-> "object", json_url |-> v, form_url |-> None] :
        v \in UrlValues}
    \cup {[is_json |-> TRUE, json_kind |-> "other", json_url |-> None,
           form_url |-> None]}
FormRequests ==
    {[is_json |-> FALSE, json_kind |-> "object", json_url |-> None, form_url |-> v] :
        v \in UrlValues}
ShortenRequests == JsonRequests \cup FormRequests
\* The request of the long and the fair runs.
LongRequests ==
    {[is_json |-> TRUE, json_kind |-> "object", json_url |-> "http://a",
      form_url |-> None]}
\* Python truthiness of a url value ("not long_url").
Falsy(v) == v = None \/ v = ""

\* A slot of the history of issued codes whose call has not returned yet.
Pending == "<pending>"
NoResp == <<>>

VARIABLES
    url_store,      \* the registry: a function from codes to URLs
    _counter,       \* the global counter
    _counter_lock,  \* 0 when free, else the worker that holds it
    pc,             \* each worker's position in its handler
    long_url,       \* shorten: the local long_url
    code,           \* shorten: the local code; lookup: the path parameter
    tmp,            \* generate_short_code: the value loaded by "+="
    num,            \* _encode_base62: the local num
    chars,          \* _encode_base62: the local chars
    resp,           \* the response of the request being handled
    issued,         \* history: the codes returned, in increment order
    ticket,         \* history: each worker's slot of issued
    puts,           \* history: the <<code, url>> pairs ever put
    enc             \* a direct call of _encode_base62: argument and result

vars == <<url_store, _counter, _counter_lock, pc, long_url, code, tmp, num,
          chars, resp, issued, ticket, puts, enc>>
shared == <<url_store, _counter, _counter_lock>>
frame == <<tmp, num, chars>>
hist == <<issued, ticket, puts>>

(* --------------------------- _encode_base62 ---------------------------- *)
_base62_alphabet ==
    "0123456789abcdefghijklmnopqrstuvwxyzABCDEFGHIJKLMNOPQRSTUVWXYZ"

\* base = len(_base62_alphabet)
base == Len(_base62_alphabet)

\* Python's s[i], zero-based.
CharAt(s, i) == SubSeq(s, i + 1, i + 1)

divmod(a, b) == <<a \div b, a % b>>

\* loop_body with the base off by one.
loop_body_off(n, cs) ==
    LET qr == divmod(n, base - 1)
    IN  [num |-> qr[1], chars |-> Append(cs, CharAt(_base62_alphabet, qr[2]))]

\* One iteration of the while loop: the new num and chars.
loop_body(n, cs) ==
    LET qr == divmod(n, base)
    IN  [num |-> qr[1], chars |-> Append(cs, CharAt(_base62_alphabet, qr[2]))]

\* reversed that leaves the order as it is.
reversed_not(cs) == cs

\* reversed(chars)
reversed(cs) == [i \in 1..Len(cs) |-> cs[Len(cs) + 1 - i]]

\* ''.join(chars)
RECURSIVE join(_)
join(cs) == IF cs = <<>> THEN "" ELSE Head(cs) \o join(Tail(cs))

\* The while loop, run to its end.
RECURSIVE while_loop(_, _)
while_loop(n, cs) ==
    IF n > 0
    THEN LET s == loop_body(n, cs) IN while_loop(s.num, s.chars)
    ELSE cs

_encode_base62(n) ==
    IF n = 0
    THEN CharAt(_base62_alphabet, 0)
    ELSE join(reversed(while_loop(n, <<>>)))

(* ------------------------------- Init ---------------------------------- *)
EmptyStore == [c \in {} |-> ""]

Start ==
    /\ url_store = EmptyStore
    /\ _counter = 0
    /\ _counter_lock = 0
    /\ pc = [w \in AllWorkers |-> "idle"]
    /\ long_url = [w \in AllWorkers |-> None]
    /\ code = [w \in AllWorkers |-> None]
    /\ tmp = [w \in AllWorkers |-> 0]
    /\ num = [w \in AllWorkers |-> 0]
    /\ chars = [w \in AllWorkers |-> <<>>]
    /\ resp = [w \in AllWorkers |-> NoResp]
    /\ issued = <<>>
    /\ ticket = [w \in AllWorkers |-> 0]
    /\ puts = {}

\* The state of the process once the module is loaded.
Init == Start /\ enc = [arg |-> 0, ret |-> None]

\* The same, with a direct call _encode_base62(n) about to be made.
InitEnc == Start /\ enc \in {[arg |-> n, ret |-> None] : n \in 0..MaxNum}

(* ------------------------------ shorten -------------------------------- *)
\* long_url as lines 44-49 extract it from the request.
extract_url(rq) ==
    LET from_json == IF rq.is_json THEN rq.json_url ELSE None
    IN  IF Falsy(from_json) THEN rq.form_url ELSE from_json

\* data.get('url') raises AttributeError when the JSON body is a truthy value
\* that is no object; handle_unexpected_error turns it into a 500.
raises_on_get(rq) == rq.is_json /\ rq.json_kind = "other"

\* The requests in flight that will still raise the counter.
WillIncrement == {w \in AllWorkers : pc[w] \in {"acquire", "load", "add"}}

\* Lines 44-51: read the request and validate long_url.
shorten_begin(w, rq, cap) ==
    /\ pc[w] = "idle"
    /\ IF raises_on_get(rq)
       THEN /\ resp' = [resp EXCEPT ![w] = <<500, "Internal server error">>]
            /\ pc' = [pc EXCEPT ![w] = "done"]
            /\ UNCHANGED long_url
       ELSE IF Falsy(extract_url(rq))
       THEN /\ resp' = [resp EXCEPT ![w] = <<400, "Missing url">>]
            /\ pc' = [pc EXCEPT ![w] = "done"]
            /\ long_url' = [long_url EXCEPT ![w] = extract_url(rq)]
       ELSE /\ _counter + Cardinality(WillIncrement) < cap
            /\ long_url' = [long_url EXCEPT ![w] = extract_url(rq)]
            /\ pc' = [pc EXCEPT ![w] = "acquire"]
            /\ UNCHANGED resp
    /\ UNCHANGED <<shared, code, frame, hist, enc>>

\* lock_acquire that does not wait for the lock to be free.
lock_acquire_nowait(w) ==
    /\ pc[w] = "acquire"
    /\ _counter_lock' = w
    /\ pc' = [pc EXCEPT ![w] = "load"]
    /\ UNCHANGED <<url_store, _counter, long_url, code, frame, resp, hist, enc>>

\* Line 28: with _counter_lock (enter).
lock_acquire(w) ==
    /\ pc[w] = "acquire"
    /\ _counter_lock = 0
    /\ _counter_lock' = w
    /\ pc' = [pc EXCEPT ![w] = "load"]
    /\ UNCHANGED <<url_store, _counter, long_url, code, frame, resp, hist, enc>>

\* Line 29: _counter += 1, the load.
counter_load(w) ==
    /\ pc[w] = "load"
    /\ tmp' = [tmp EXCEPT ![w] = _counter]
    /\ pc' = [pc EXCEPT ![w] = "add"]
    /\ UNCHANGED <<shared, long_url, code, num, chars, resp, hist, enc>>

\* counter_store that adds two.
counter_store_double(w) ==
    /\ pc[w] = "add"
    /\ _counter' = tmp[w] + 2
    /\ issued' = Append(issued, Pending)
    /\ ticket' = [ticket EXCEPT ![w] = Len(issued) + 1]
    /\ pc' = [pc EXCEPT ![w] = "encode"]
    /\ UNCHANGED <<url_store, _counter_lock, long_url, code, frame, resp,
                   puts, enc>>

\* counter_store that stores the value it loaded.
counter_store_noinc(w) ==
    /\ pc[w] = "add"
    /\ _counter' = tmp[w]
    /\ issued' = Append(issued, Pending)
    /\ ticket' = [ticket EXCEPT ![w] = Len(issued) + 1]
    /\ pc' = [pc EXCEPT ![w] = "encode"]
    /\ UNCHANGED <<url_store, _counter_lock, long_url, code, frame, resp,
                   puts, enc>>

\* Line 29: _counter += 1, the store.
counter_store(w) ==
    /\ pc[w] = "add"
    /\ _counter' = tmp[w] + 1
    /\ issued' = Append(issued, Pending)
    /\ ticket' = [ticket EXCEPT ![w] = Len(issued) + 1]
    /\ pc' = [pc EXCEPT ![w] = "encode"]
    /\ UNCHANGED <<url_store, _counter_lock, long_url, code, frame, resp,
                   puts, enc>>

\* Lines 30, 16-19: call _encode_base62(_counter).
encode_enter(w) ==
    /\ pc[w] = "encode"
    /\ IF _counter = 0
       THEN /\ code' = [code EXCEPT ![w] = CharAt(_base62_alphabet, 0)]
            /\ pc' = [pc EXCEPT ![w] = "exit"]
            /\ UNCHANGED <<num, chars>>
       ELSE /\ num' = [num EXCEPT ![w] = _counter]
            /\ chars' = [chars EXCEPT ![w] = <<>>]
            /\ pc' = [pc EXCEPT ![w] = "loop"]
            /\ UNCHANGED code
    /\ UNCHANGED <<shared, long_url, tmp, resp, hist, enc>>

\* Lines 20-22: one iteration of the while loop.
encode_iterate(w) ==
    /\ pc[w] = "loop"
    /\ num[w] > 0
    /\ num' = [num EXCEPT ![w] = loop_body(num[w], chars[w]).num]
    /\ chars' = [chars EXCEPT ![w] = loop_body(num[w], chars[w]).chars]
    /\ UNCHANGED <<shared, pc, long_url, code, tmp, resp, hist, enc>>

\* Line 23: the loop is over, return ''.join(reversed(chars)).
encode_return(w) ==
    /\ pc[w] = "loop"
    /\ ~(num[w] > 0)
    /\ code' = [code EXCEPT ![w] = join(reversed(chars[w]))]
    /\ pc' = [pc EXCEPT ![w] = "exit"]
    /\ UNCHANGED <<shared, long_url, frame, resp, hist, enc>>

\* lock_release that returns with the lock still held.
lock_release_leak(w) ==
    /\ pc[w] = "exit"
    /\ issued' = [issued EXCEPT ![ticket[w]] = code[w]]
    /\ pc' = [pc EXCEPT ![w] = "put"]
    /\ UNCHANGED <<shared, long_url, code, frame, resp, ticket, puts, enc>>

\* Lines 28, 30: leave the with block, generate_short_code returns code.
lock_release(w) ==
    /\ pc[w] = "exit"
    /\ _counter_lock' = 0
    /\ issued' = [issued EXCEPT ![ticket[w]] = code[w]]
    /\ pc' = [pc EXCEPT ![w] = "put"]
    /\ UNCHANGED <<url_store, _counter, long_url, code, frame, resp, ticket,
                   puts, enc>>

\* store_put that replaces the registry by the new entry.
store_put_fresh(c, u) == [k \in {c} |-> u]

\* url_store[c] = u
store_put(c, u) ==
    [k \in DOMAIN url_store \cup {c} |-> IF k = c THEN u ELSE url_store[k]]

\* shorten_put with key and value swapped.
shorten_put_swapped(w) ==
    /\ pc[w] = "put"
    /\ url_store' = store_put(long_url[w], code[w])
    /\ puts' = puts \cup {<<long_url[w], code[w]>>}
    /\ resp' = [resp EXCEPT ![w] = <<201, code[w], long_url[w]>>]
    /\ pc' = [pc EXCEPT ![w] = "done"]
    /\ UNCHANGED <<_counter, _counter_lock, long_url, code, frame, issued,
                   ticket, enc>>

\* Lines 54-61: url_store[code] = long_url and the 201 response.
shorten_put(w) ==
    /\ pc[w] = "put"
    /\ url_store' = store_put(code[w], long_url[w])
    /\ puts' = puts \cup {<<code[w], long_url[w]>>}
    /\ resp' = [resp EXCEPT ![w] = <<201, code[w], long_url[w]>>]
    /\ pc' = [pc EXCEPT ![w] = "done"]
    /\ UNCHANGED <<_counter, _counter_lock, long_url, code, frame, issued,
                   ticket, enc>>

(* ---------------------------- redirect_code ---------------------------- *)
\* store_get with a default URL for unknown codes.
store_get_default(c) == IF c \in DOMAIN url_store THEN url_store[c] ELSE "/"

\* url_store.get(code)
store_get(c) == IF c \in DOMAIN url_store THEN url_store[c] ELSE None

\* Lines 64-69: look the code up, 404 or 302.
redirect_code(w, c) ==
    /\ pc[w] = "idle"
    /\ code' = [code EXCEPT ![w] = c]
    /\ resp' = [resp EXCEPT ![w] =
                   IF Falsy(store_get(c)) THEN <<404>> ELSE <<302, store_get(c)>>]
    /\ pc' = [pc EXCEPT ![w] = "lookup_done"]
    /\ UNCHANGED <<shared, long_url, frame, hist, enc>>

\* The response is sent and the worker takes the next request.
request_end(w) ==
    /\ pc[w] \in {"done", "lookup_done"}
    /\ pc' = [pc EXCEPT ![w] = "idle"]
    /\ long_url' = [long_url EXCEPT ![w] = None]
    /\ code' = [code EXCEPT ![w] = None]
    /\ resp' = [resp EXCEPT ![w] = NoResp]
    /\ tmp' = [tmp EXCEPT ![w] = 0]
    /\ num' = [num EXCEPT ![w] = 0]
    /\ chars' = [chars EXCEPT ![w] = <<>>]
    /\ ticket' = [ticket EXCEPT ![w] = 0]
    /\ UNCHANGED <<shared, issued, puts, enc>>

\* The codes a lookup asks for: the numerals the counter can reach, the
\* numeral of zero and a word that is never issued.
LookupCodes == {_encode_base62(n) : n \in 0..MaxCounter} \cup {"doesnotexist"}

(* --------------------------- specifications ---------------------------- *)
Next ==
    \/ \E w \in Workers, rq \in ShortenRequests : shorten_begin(w, rq, MaxCounter)
    \/ \E w \in Workers : lock_acquire(w)
    \/ \E w \in Workers : counter_load(w)
    \/ \E w \in Workers : counter_store(w)
    \/ \E w \in Workers : encode_enter(w)
    \/ \E w \in Workers : encode_iterate(w)
    \/ \E w \in Workers : encode_return(w)
    \/ \E w \in Workers : lock_release(w)
    \/ \E w \in Workers : shorten_put(w)
    \/ \E w \in Workers, c \in LookupCodes : redirect_code(w, c)
    \/ \E w \in Workers : request_end(w)

Spec == Init /\ [][Next]_vars

\* The handler steps of a worker other than taking the lock.
handler_step(w) ==
    \/ counter_load(w)
    \/ counter_store(w)
    \/ encode_enter(w)
    \/ encode_iterate(w)
    \/ encode_return(w)
    \/ lock_release(w)
    \/ shorten_put(w)
    \/ request_end(w)

\* Fair scheduling: a worker that can run does run, and a worker waiting for
\* the lock gets it if the lock is free again and again.
NextFair ==
    \/ \E w \in FairWorkers, rq \in LongRequests : shorten_begin(w, rq, MaxFair)
    \/ \E w \in FairWorkers : lock_acquire(w)
    \/ \E w \in FairWorkers : handler_step(w)

FairSpec ==
    /\ Init
    /\ [][NextFair]_vars
    /\ \A w \in FairWorkers : WF_vars(handler_step(w)) /\ SF_vars(lock_acquire(w))

\* A long run of shorten requests.
NextLong ==
    \/ \E w \in LongWorkers, rq \in LongRequests : shorten_begin(w, rq, MaxLong)
    \/ \E w \in LongWorkers : lock_acquire(w)
    \/ \E w \in LongWorkers : counter_load(w)
    \/ \E w \in LongWorkers : counter_store(w)
    \/ \E w \in LongWorkers : encode_enter(w)
    \/ \E w \in LongWorkers : encode_iterate(w)
    \/ \E w \in LongWorkers : encode_return(w)
    \/ \E w \in LongWorkers : lock_release(w)
    \/ \E w \in LongWorkers : shorten_put(w)
    \/ \E w \in LongWorkers : request_end(w)

SpecLong == Init /\ [][NextLong]_vars

\* Direct calls of _encode_base62.
encode_call ==
    /\ enc.ret = None
    /\ enc' = [enc EXCEPT !.ret = _encode_base62(enc.arg)]
    /\ UNCHANGED <<shared, pc, long_url, code, frame, resp, hist>>

SpecEnc == InitEnc /\ [][encode_call]_vars

(* ------------------------- reference numerals -------------------------- *)
\* The digits of a base-62 numeral, written out independently of the code.
RefRadix == 62
RefDigits ==
    "0123456789" \o "abcdefghijklmnopqrstuvwxyz" \o "ABCDEFGHIJKLMNOPQRSTUVWXYZ"
IsDigit(ch) == \E j \in 1..RefRadix : SubSeq(RefDigits, j, j) = ch
DigitValue(ch) == CHOOSE j \in 0..(RefRadix - 1) : SubSeq(RefDigits, j + 1, j + 1) = ch

\* The value of a numeral, most significant digit first (Horner).
RECURSIVE decode_from(_, _)
decode_from(s, acc) ==
    IF s = "" THEN acc
    ELSE decode_from(Tail(s), acc * RefRadix + DigitValue(Head(s)))
decode(s) == decode_from(s, 0)

\* A numeral without leading zeros: one digit at least, all of them digits,
\* and the first one "0" only in the numeral "0".
Canonical(s) ==
    /\ Len(s) >= 1
    /\ \A i \in 1..Len(s) : IsDigit(SubSeq(s, i, i))
    /\ (Head(s) = "0" => s = "0")

\* s is the reference base-62 numeral of n.
NumeralOf(s, n) == Canonical(s) /\ decode(s) = n

\* The codes of the direct calls, computed once.
EncTable == [n \in 0..MaxNum |-> _encode_base62(n)]

(* ------------------------------- claims -------------------------------- *)
\* The slots of issued whose call has returned.
Returned == {k \in 1..Len(issued) : issued[k] # Pending}
\* The workers past the increment of generate_short_code and not yet past
\* the put of shorten.
BetweenIncrementAndPut ==
    {w \in AllWorkers : pc[w] \in {"encode", "loop", "exit", "put"}}
\* The workers inside the with block of generate_short_code.
InsideWith(w) == pc[w] \in {"load", "add", "encode", "loop", "exit"}

\* C1: the codes returned by generate_short_code, whatever the number of
\* workers and the interleaving of their steps, are pairwise distinct.
C1_CodesPairwiseDistinct ==
    \A i, j \in Returned : i # j => issued[i] # issued[j]

\* Two calls that overlapped have both returned.
C1_Witness ==
    \E v, w \in Workers :
        /\ v # w
        /\ pc[v] = "put" /\ pc[w] = "put"
        /\ ticket[v] \in Returned /\ ticket[w] \in Returned

C3_LookupAfterPutRedirects ==
    [][\A w \in Workers, c \in LookupCodes :
          redirect_code(w, c) =>
             \A p \in puts :
                (p[1] = c /\ ~Falsy(p[2])) => resp'[w] = <<302, p[2]>>]_vars

\* A lookup has answered with the URL of the second of two entries while a
\* third shorten request is under way.
C3_Witness ==
    \E w \in Workers :
        /\ pc[w] = "lookup_done"
        /\ resp[w] = <<302, "http://b">>
        /\ <<code[w], "http://b">> \in puts
        /\ Cardinality(puts) >= 2
        /\ _counter > Cardinality(puts)

\* C4: a lookup of a code that was never put answers 404 and leaves the
\* counter and the registry as they are.
C4_UnknownLookupNotFound ==
    [][\A w \in Workers, c \in LookupCodes :
          (redirect_code(w, c) /\ \A p \in puts : p[1] # c) =>
             /\ resp'[w] = <<404>>
             /\ UNCHANGED <<_counter, url_store>>]_vars

\* A lookup of a code that is generated and not yet put has answered 404.
C4_Witness ==
    \E v, w \in Workers :
        /\ pc[w] = "lookup_done"
        /\ resp[w] = <<404>>
        /\ pc[v] = "put"
        /\ code[v] = code[w]

\* C5: _encode_base62(n) is the reference base-62 numeral of n; 0 gives "0",
\* 1 gives "1", 61 gives "Z", 62 gives "10" and 63 gives "11".
C5_EncodeIsReferenceNumeral ==
    enc.ret # None =>
        /\ NumeralOf(enc.ret, enc.arg)
        /\ (enc.arg = 0 => enc.ret = "0")
        /\ (enc.arg = 1 => enc.ret = "1")
        /\ (enc.arg = 61 => enc.ret = "Z")
        /\ (enc.arg = 62 => enc.ret = "10")
        /\ (enc.arg = 63 => enc.ret = "11")

\* The call _encode_base62(62) has returned "10".
C5_Witness == enc.arg = 62 /\ enc.ret = "10"

\* C6: decoding _encode_base62(n) gives n, encoding that value again gives
\* the same string, and no other number has the same code.
C6_EncodeRoundTrips ==
    enc.ret # None =>
        /\ decode(enc.ret) = enc.arg
        /\ _encode_base62(decode(enc.ret)) = enc.ret
        /\ \A m \in 0..MaxNum : m # enc.arg => EncTable[m] # enc.ret

\* A call with a three-digit result has returned.
C6_Witness == enc.ret # None /\ enc.arg > RefRadix * RefRadix /\ Len(enc.ret) = 3

\* C7: the code a shorten request is about to put is no key of the registry,
\* and no step removes a key or changes the URL it maps to.
C7_EntriesWriteOnce ==
    /\ [](\A w \in Workers : pc[w] = "put" => code[w] \notin DOMAIN url_store)
    /\ [][\A c \in DOMAIN url_store :
             c \in DOMAIN url_store' /\ url_store'[c] = url_store[c]]_vars

\* A put is about to happen on a registry that holds two different URLs.
C7_Witness ==
    /\ \E w \in Workers : pc[w] = "put"
    /\ \E c, d \in DOMAIN url_store : url_store[c] # url_store[d]

\* A shorten request carries no url when no truthy url comes out of its JSON
\* body or its form.
MissingUrl(rq) ==
    /\ (rq.is_json => (rq.json_kind = "other" \/ Falsy(rq.json_url)))
    /\ Falsy(rq.form_url)

\* C8: a shorten request without a url is answered 400 'Missing url' and
\* leaves the counter and the registry as they are.
C8_MissingUrlRejected ==
    [][\A w \in Workers, rq \in ShortenRequests :
          (shorten_begin(w, rq, MaxCounter) /\ MissingUrl(rq)) =>
             /\ resp'[w] = <<400, "Missing url">>
             /\ pc'[w] = "done"
             /\ UNCHANGED <<_counter, url_store>>]_vars

\* C9: every key of the registry is the numeral of some i in 1.._counter, the
\* registry has at most _counter entries, and when no worker is between its
\* increment and its put the keys are the numerals of 1.._counter exactly.
C9_KeysAreIssuedNumerals ==
    /\ \A c \in DOMAIN url_store : Canonical(c) /\ decode(c) \in 1.._counter
    /\ Cardinality(DOMAIN url_store) <= _counter
    /\ BetweenIncrementAndPut = {} =>
          {decode(c) : c \in DOMAIN url_store} = 1.._counter

\* Three codes are issued and stored and no request is in flight.
C9_Witness ==
    /\ _counter = 3
    /\ BetweenIncrementAndPut = {}
    /\ Cardinality(DOMAIN url_store) = 3

\* C10: the lock is held exactly by a worker inside the with block of
\* generate_short_code, and under fair scheduling every worker that waits for
\* the lock gets it, leaves the encoding loop and returns its code.
C10_GenerateTerminates ==
    /\ [](\A w \in FairWorkers : (_counter_lock = w) <=> InsideWith(w))
    /\ \A w \in FairWorkers : (pc[w] = "acquire") ~> (pc[w] = "put")

\* A worker waits for the lock while another one is in the encoding loop.
C10_Witness ==
    \E v, w \in FairWorkers :
        /\ pc[w] = "acquire"
        /\ _counter_lock = v
        /\ pc[v] = "loop"

====
